---- MODULE Spec2Model ----
(***************************************************************************)
(* Model of static/js/app.js: the page script of the vehicle tracker.      *)
(*                                                                         *)
(* The state is the part of the DOM the script reads and writes (field     *)
(* values, validation classes, the submit button, searchable elements, the *)
(* status line, the clear control, focus), the localStorage entries under  *)
(* "autosave_<name>", the pending timers and the listeners that            *)
(* initializeApp managed to register.  One action stands for one browser   *)
(* event together with every listener the script registered for it, run   *)
(* in registration order.                                                  *)
(*                                                                         *)
(* The table utilities sortTable and exportTableToCSV, which the script    *)
(* only exports, are applied to the tables of a page of their own under    *)
(* SpecTable.                                                              *)
(*                                                                         *)
(* Texts are sequences of one-character strings, so that toLowerCase, trim *)
(* and includes are computed character by character.                       *)
(*                                                                         *)
(* The browser is the environment: submit events are taken as they come    *)
(* (the forms are novalidate, so they fire for invalid forms too), every   *)
(* search input has a parent of its own for its status line, and           *)
(* localStorage either works, refuses writes (quota) or refuses every      *)
(* access for the whole life of a document.  initializeTooltips, the       *)
(* markup of the error banner and the console output change nothing the    *)
(* other functions read and are left out.                                  *)
(***************************************************************************)
EXTENDS Integers, Sequences, FiniteSets, TLC

\* ------------------------------------------------------------------ bounds
\* Most error banners on screen at once.
MaxNotes == 1
\* Most fallback timers of submit buttons pending at once.
MaxFallback == 2
\* Most debounce timers of one input pending when a further event is taken.
MaxPending == 2
\* Cap of the counter of input events of one burst.
MaxBurst == 2
\* Most body rows of a table.
MaxRows == 3

\* ------------------------------------------------------- program constants
DebounceDelay == 300
FallbackDelay == 3000

\* ------------------------------------------------------------------- texts
\* The texts typed into search inputs, and those typed into other fields.
SearchTexts == {<<>>, <<" ">>, <<" ", "B">>, <<"A", "b">>}
PlainTexts == {<<>>, <<" ", "B">>, <<"A", "b">>}
\* The values the server renders into a field.
RenderedTexts == {<<>>, <<"A", "b">>}

\* Elapsed times by which the clock is advanced in one step: fractions of the
\* debounce delay and of the fallback delay.
ShortSteps == {100, 200}
LongSteps == {1000}

LowerChar(c) == CASE c = "A" -> "a" [] c = "B" -> "b" [] OTHER -> c

\* String.prototype.toLowerCase
ToLower(s) == [i \in 1..Len(s) |-> LowerChar(s[i])]

\* The white space of the texts of the model: the space and the line break.
WhiteSpace == {" ", "\n"}

RECURSIVE TrimStart(_)
TrimStart(s) == IF s # <<>> /\ Head(s) \in WhiteSpace THEN TrimStart(Tail(s)) ELSE s

RECURSIVE TrimEnd(_)
TrimEnd(s) ==
    IF s # <<>> /\ s[Len(s)] \in WhiteSpace
    THEN TrimEnd(SubSeq(s, 1, Len(s) - 1))
    ELSE s

\* String.prototype.trim
Trim(s) == TrimEnd(TrimStart(s))

StartsWith(s, t) == Len(t) <= Len(s) /\ SubSeq(s, 1, Len(t)) = t

\* String.prototype.includes: scan the text from the left for the term.
RECURSIVE Includes(_, _)
Includes(s, t) ==
    \/ StartsWith(s, t)
    \/ s # <<>> /\ Includes(Tail(s), t)

\* ------------------------------------------------------------------- pages
\* A page is the server-rendered document: forms, fields (input elements, in
\* document order) and searchable elements, with the texts the user types
\* into its fields and the values the server renders into them.  form = 0: the field is in no
\* form; container = 0: the field has no .card/.container ancestor.
Field(fm, nm, ty, req, cont) ==
    [form |-> fm, name |-> nm, type |-> ty, required |-> req, container |-> cont]

Form(as, btn) == [autosave |-> as, submitBtn |-> btn]

Elem(cont, txt) == [container |-> cont, text |-> txt]

\* Two autosave forms that both hold a field named "email".
PageCollide ==
    [forms  |-> <<Form(TRUE, FALSE), Form(TRUE, FALSE)>>,
     fields |-> <<Field(1, "email", "text", FALSE, 0),
                  Field(2, "email", "text", FALSE, 0)>>,
     elems  |-> <<>>,
     texts  |-> PlainTexts,
     rendered |-> RenderedTexts]

\* Two autosave forms with fields of different names.
PageOwners ==
    [forms  |-> <<Form(TRUE, FALSE), Form(TRUE, FALSE)>>,
     fields |-> <<Field(1, "email", "text", FALSE, 0),
                  Field(2, "phone", "text", FALSE, 0)>>,
     elems  |-> <<>>,
     texts  |-> {<<>>, <<"A", "b">>},
     rendered |-> RenderedTexts]

\* One autosave form with a field without a name and a required named one.
PageUnnamed ==
    [forms  |-> <<Form(TRUE, FALSE)>>,
     fields |-> <<Field(1, "", "text", FALSE, 0),
                  Field(1, "vin", "text", TRUE, 0)>>,
     elems  |-> <<>>,
     texts  |-> PlainTexts,
     rendered |-> RenderedTexts]

\* A search input (by type) in no form, over a container of three elements.
PageSearch ==
    [forms  |-> <<>>,
     fields |-> <<Field(0, "q", "search", FALSE, 1)>>,
     elems  |-> <<Elem(1, <<"A", "b">>), Elem(1, <<"b", "A">>),
                  Elem(1, <<"a", " ">>)>>,
     texts  |-> SearchTexts,
     rendered |-> RenderedTexts]

\* A search input (by name) inside an autosave form.
PageSearchForm ==
    [forms  |-> <<Form(TRUE, FALSE)>>,
     fields |-> <<Field(1, "search", "text", FALSE, 1)>>,
     elems  |-> <<Elem(1, <<"A", "b">>), Elem(1, <<"a", " ">>)>>,
     texts  |-> SearchTexts,
     rendered |-> RenderedTexts]

\* Two search inputs over one container, both rendered empty.
PageTwoSearch ==
    [forms  |-> <<>>,
     fields |-> <<Field(0, "q", "search", FALSE, 1),
                  Field(0, "search", "text", FALSE, 1)>>,
     elems  |-> <<Elem(1, <<"A", "b">>), Elem(1, <<"a", " ">>)>>,
     texts  |-> {<<>>, <<"A", "b">>},
     rendered |-> {<<>>}]

\* A search input without a .card/.container ancestor.
PageBare ==
    [forms  |-> <<>>,
     fields |-> <<Field(0, "search", "search", FALSE, 0)>>,
     elems  |-> <<>>,
     texts  |-> SearchTexts,
     rendered |-> RenderedTexts]

\* A form with a submit button and a required field.
PageSubmit ==
    [forms  |-> <<Form(FALSE, TRUE)>>,
     fields |-> <<Field(1, "vin", "text", TRUE, 0)>>,
     elems  |-> <<>>,
     texts  |-> PlainTexts,
     rendered |-> RenderedTexts]

FieldIds(pg) == 1..Len(pg.fields)
FormIds(pg) == 1..Len(pg.forms)
ElemIds(pg) == 1..Len(pg.elems)

\* form.querySelectorAll('input, select, textarea'), in document order
InputsOf(pg, fm) ==
    SelectSeq([i \in 1..Len(pg.fields) |-> i], LAMBDA i : pg.fields[i].form = fm)

Range(s) == {s[i] : i \in 1..Len(s)}

\* input[type="search"], input[name="search"]
IsSearch(pg, f) == pg.fields[f].type = "search" \/ pg.fields[f].name = "search"

SearchInputs(pg) == {f \in FieldIds(pg) : IsSearch(pg, f)}

\* searchContainer.querySelectorAll('[data-searchable]')
SearchableIn(pg, c) == {e \in ElemIds(pg) : pg.elems[e].container = c}

\* The .card/.container elements that hold searchable elements.
Containers(pg) == {pg.elems[e].container : e \in ElemIds(pg)}

\* field.checkValidity(): the only constraint of the model is "required".
FieldValid(pg, val, f) == ~pg.fields[f].required \/ val[f] # <<>>

\* form.checkValidity()
FormValid(pg, val, fm) == \A f \in Range(InputsOf(pg, fm)) : FieldValid(pg, val, f)

\* ------------------------------------------------------------------- store
StoreModes == {"ok", "full", "unavailable"}

\* The modes of the store a page can tell apart: the script touches the store
\* only for the inputs of forms with data-autosave.
ModesOf(pg) ==
    IF \E fm \in 1..Len(pg.forms) : pg.forms[fm].autosave /\ InputsOf(pg, fm) # <<>>
    THEN StoreModes
    ELSE {"ok"}

\* `autosave_${input.name}`
Key(nm) == "autosave_" \o nm

\* The key of a field: its name alone decides it, not its form.
KeyOfScoped(pg, f) ==
    IF pg.fields[f].form > 1
    THEN Key(pg.fields[f].name) \o "@form"
    ELSE Key(pg.fields[f].name)

KeyOf(pg, f) == Key(pg.fields[f].name)

Keys(pg) == {KeyOf(pg, f) : f \in FieldIds(pg)}

EmptyStore == [k \in {} |-> <<>>]

\* localStorage.setItem(key, value)
SetItem(st, k, v) == [j \in DOMAIN st \cup {k} |-> IF j = k THEN v ELSE st[j]]

\* localStorage.removeItem(key)
RemoveItem(st, k) == [j \in DOMAIN st \ {k} |-> st[j]]

RECURSIVE RemoveAll(_, _, _)
RemoveAll(pg, st, fs) ==
    IF fs = <<>> THEN st
    ELSE RemoveAll(pg, RemoveItem(st, KeyOf(pg, Head(fs))), Tail(fs))

\* ------------------------------------------------------------------- state
VARIABLES
    page,          \* the document the server rendered (fixed during a run)
    store,         \* localStorage: key -> text, absent keys not in the domain
    storeMode,     \* "ok", "full" (setItem throws), "unavailable" (any access throws)
    value,         \* field -> input.value
    classes,       \* field -> subset of {"is-valid", "is-invalid"}
    wasValidated,  \* form -> form.classList.contains('was-validated')
    focus,         \* document.activeElement: a field, or 0 for anything else
    btn,           \* form -> state of its button[type="submit"]
    timers,        \* pending setTimeout callbacks, in creation order
    searchTimeout, \* search input -> handle held by its closure, 0: undefined
    display,       \* searchable element -> style.display
    countEl,       \* search input -> the .search-count status line beside it
    clearBtn,      \* search input -> its clear control is in the document
    bound,         \* listeners that initializeApp registered
    notifications, \* error banners on screen
    last,          \* the event handled last, with what its listeners did
    lastWrite,     \* field -> <<v>>: the text its last input event stored, <<>>
                   \* when it stored none since a form was last submitted
    keyWrite,      \* key -> <<v>>: the text the last input event stored under it,
                   \* <<>> when none did since a form with a field of that key
                   \* was last submitted
    events,        \* search input -> input events since the last pass (capped)
    passes,        \* search input -> performSearch calls since its last input event
    sinceInput,    \* search input -> time since its last input event (capped)
    textAtEvent,   \* search input -> input.value at its last input event
    clearHist,     \* search input -> "empty"/"filled": its value at initialization,
                   \* "activated": its clear control was activated and no input
                   \* event came since, "superseded": one came
    shownFor,      \* container -> the search input whose filter pass ran last over
                   \* it since the page was loaded, 0: none ran
    writer,        \* key -> the field whose input event stored the entry, 0: no entry
    table          \* the body rows of the page's table, each a sequence of cell texts

vars == <<page, store, storeMode, value, classes, wasValidated, focus, btn, timers,
          searchTimeout, display, shownFor, countEl, clearBtn, bound, notifications, last,
          lastWrite, keyWrite, writer, events, passes, sinceInput, textAtEvent, clearHist, table>>

dom == <<classes, wasValidated, focus, btn, timers, searchTimeout, display, shownFor,
         countEl, clearBtn>>

NoEvent == [op |-> "none", target |-> 0, info |-> 0]

IdleLabel == "Save"
\* '<span class="spinner-border spinner-border-sm me-2"></span>Saving...'
SavingLabel == "Saving..."

IdleBtn == [loading |-> FALSE, disabled |-> FALSE, label |-> IdleLabel]

NoCount == [exists |-> FALSE, shown |-> FALSE, visible |-> 0, total |-> 0]

\* ------------------------------------------------------------ page load
\* The "Load saved data" step of one input.
RestoreOverwrite(st, val, f, k) ==
    IF k \in DOMAIN st /\ st[k] # <<>> THEN [val EXCEPT ![f] = st[k]] ELSE val

RestoreNever(st, val, f, k) == val

RestoreInput(st, val, f, k) ==
    IF k \in DOMAIN st /\ st[k] # <<>> /\ val[f] = <<>>
    THEN [val EXCEPT ![f] = st[k]]
    ELSE val

RECURSIVE RestoreInputs(_, _, _, _)
RestoreInputs(pg, st, val, fs) ==
    IF fs = <<>> THEN val
    ELSE RestoreInputs(pg, st, RestoreInput(st, val, Head(fs), KeyOf(pg, Head(fs))),
                       Tail(fs))

\* initializeAutoSave: forms.forEach over form[data-autosave].  acc collects the
\* field values, the inputs and forms that got their listener, and whether a
\* store access threw (which ends the loop and the function).
RECURSIVE AutoSaveForms(_, _, _, _, _)
AutoSaveForms(pg, st, mode, acc, fm) ==
    IF fm > Len(pg.forms) THEN acc
    ELSE IF ~pg.forms[fm].autosave THEN AutoSaveForms(pg, st, mode, acc, fm + 1)
    ELSE IF InputsOf(pg, fm) # <<>> /\ mode = "unavailable"
         THEN [acc EXCEPT !.threw = TRUE]
    ELSE AutoSaveForms(pg, st, mode,
             [value  |-> RestoreInputs(pg, st, acc.value, InputsOf(pg, fm)),
              inputs |-> acc.inputs \cup Range(InputsOf(pg, fm)),
              forms  |-> acc.forms \cup {fm},
              threw  |-> FALSE],
             fm + 1)

initializeAutoSave(pg, st, mode, srv) ==
    AutoSaveForms(pg, st, mode,
                  [value |-> srv, inputs |-> {}, forms |-> {}, threw |-> FALSE], 1)

\* initializeApp, run by DOMContentLoaded: the validation listeners are always
\* registered; an exception of initializeAutoSave leaves initializeApp, so
\* initializeSearch and initializeKeyboardShortcuts do not run, and reaches the
\* window error handler.
initializeApp(pg, st, mode, srv) ==
    LET a == initializeAutoSave(pg, st, mode, srv) IN
    [value    |-> a.value,
     bound    |-> [inputs |-> a.inputs,
                   forms  |-> a.forms,
                   search |-> IF a.threw THEN {} ELSE SearchInputs(pg),
                   keys   |-> ~a.threw],
     clearBtn |-> [f \in FieldIds(pg) |->
                      ~a.threw /\ IsSearch(pg, f) /\ a.value[f] # <<>>],
     errors   |-> IF a.threw THEN 1 ELSE 0]

\* The state of a freshly loaded page whose fields the server rendered as srv.
Loaded(pg, st, mode, srv) ==
    LET app == initializeApp(pg, st, mode, srv) IN
    [value         |-> app.value,
     bound         |-> app.bound,
     clearBtn      |-> app.clearBtn,
     notifications |-> app.errors,
     classes       |-> [f \in FieldIds(pg) |-> {}],
     wasValidated  |-> [fm \in FormIds(pg) |-> FALSE],
     btn           |-> [fm \in FormIds(pg) |-> IdleBtn],
     display       |-> [e \in ElemIds(pg) |-> ""],
     countEl       |-> [f \in FieldIds(pg) |-> NoCount],
     searchTimeout |-> [f \in FieldIds(pg) |-> 0],
     zeros         |-> [f \in FieldIds(pg) |-> 0],
     blanks        |-> [f \in FieldIds(pg) |-> <<>>],
     last          |-> [op |-> "load", target |-> 0,
                        info |-> [srv |-> srv, uncaught |-> app.errors]]]

InitOn(pages) ==
    /\ page \in pages
    /\ storeMode \in ModesOf(page)
    /\ store = EmptyStore
    /\ \E srv \in [FieldIds(page) -> page.rendered] :
         \E s \in {Loaded(page, store, storeMode, srv)} :
         /\ value = s.value
         /\ bound = s.bound
         /\ clearBtn = s.clearBtn
         /\ notifications = s.notifications
         /\ classes = s.classes
         /\ wasValidated = s.wasValidated
         /\ btn = s.btn
         /\ display = s.display
         /\ shownFor = [c \in Containers(page) |-> 0]
         /\ countEl = s.countEl
         /\ searchTimeout = s.searchTimeout
         /\ events = s.zeros
         /\ passes = s.zeros
         /\ sinceInput = s.zeros
         /\ textAtEvent = s.blanks
         /\ clearHist = [f \in SearchInputs(page) |->
                            IF s.value[f] = <<>> THEN "empty" ELSE "filled"]
         /\ last = s.last
         /\ lastWrite = s.blanks
         /\ keyWrite = [k \in Keys(page) |-> <<>>]
         /\ writer = [k \in Keys(page) |-> 0]
    /\ focus = 0
    /\ timers = <<>>

\* The user reloads or navigates back to the page: the document is rendered
\* again, every timer and banner of the old document is gone, the store stays.
LoadPage ==
    \E mode \in ModesOf(page), srv \in [FieldIds(page) -> page.rendered] :
        \E s \in {Loaded(page, store, mode, srv)} :
        /\ storeMode' = mode
        /\ value' = s.value
        /\ bound' = s.bound
        /\ clearBtn' = s.clearBtn
        /\ notifications' = s.notifications
        /\ classes' = s.classes
        /\ wasValidated' = s.wasValidated
        /\ btn' = s.btn
        /\ display' = s.display
        /\ shownFor' = [c \in Containers(page) |-> 0]
        /\ countEl' = s.countEl
        /\ searchTimeout' = s.searchTimeout
        /\ events' = s.zeros
        /\ passes' = s.zeros
        /\ sinceInput' = s.zeros
        /\ textAtEvent' = s.blanks
        /\ clearHist' = [f \in SearchInputs(page) |->
                            IF s.value[f] = <<>> THEN "empty" ELSE "filled"]
        /\ last' = s.last
        /\ focus' = 0
        /\ timers' = <<>>
        /\ UNCHANGED <<page, table, store, lastWrite, keyWrite, writer>>

\* ------------------------------------------------------------ validation
\* validateField (the feedback text is not part of the state)
validateFieldAddOnly(pg, cls, val, f) ==
    IF FieldValid(pg, val, f)
    THEN [cls EXCEPT ![f] = @ \cup {"is-valid"}]
    ELSE [cls EXCEPT ![f] = @ \cup {"is-invalid"}]

validateField(pg, cls, val, f) ==
    IF FieldValid(pg, val, f)
    THEN [cls EXCEPT ![f] = (@ \ {"is-invalid"}) \cup {"is-valid"}]
    ELSE [cls EXCEPT ![f] = (@ \ {"is-valid"}) \cup {"is-invalid"}]

\* The blur and the input listener of a field of a form: both validate the
\* field once the form carries was-validated.
ValidationListener(pg, cls, wv, val, f) ==
    IF pg.fields[f].form # 0 /\ wv[pg.fields[f].form]
    THEN validateField(pg, cls, val, f)
    ELSE cls

\* Focus moves from old to new: the element that loses it gets a blur event.
MoveFocus(pg, cls, wv, val, old, new) ==
    IF old # 0 /\ old # new THEN ValidationListener(pg, cls, wv, val, old) ELSE cls

\* ---------------------------------------------------------------- timers
Timer(id, kind, target, delay, orig) ==
    [id |-> id, kind |-> kind, target |-> target, remaining |-> delay, orig |-> orig]

\* A handle no pending timer and no closure holds.
FreshId(tm, handles) ==
    LET used == {tm[i].id : i \in 1..Len(tm)} \cup handles
    IN  CHOOSE n \in 1..(Cardinality(used) + 1) :
            n \notin used /\ \A m \in 1..(n - 1) : m \in used

\* clearTimeout(handle)
clearTimeout(tm, handle) == SelectSeq(tm, LAMBDA t : t.id # handle)

PendingSearch(tm, f) == {i \in 1..Len(tm) : tm[i].kind = "search" /\ tm[i].target = f}

PendingFallback(tm) == {i \in 1..Len(tm) : tm[i].kind = "fallback"}

\* The input listener of a search input: cancel the pending pass, schedule one.
DebounceNoClear(tm, handles, f) ==
    LET id == FreshId(tm, {handles[g] : g \in DOMAIN handles})
    IN  [timers  |-> Append(tm, Timer(id, "search", f, DebounceDelay, "")),
         handles |-> [handles EXCEPT ![f] = id]]

Debounce(tm, handles, f) ==
    LET kept == clearTimeout(tm, handles[f])
        id   == FreshId(kept, {handles[g] : g \in DOMAIN handles \ {f}})
    IN  [timers  |-> Append(kept, Timer(id, "search", f, DebounceDelay, "")),
         handles |-> [handles EXCEPT ![f] = id]]

\* --------------------------------------------------------------- autosave
\* "Save on input": localStorage.setItem(`autosave_${input.name}`, input.value)
SaveSkipEmpty(st, k, v) == IF v = <<>> THEN st ELSE SetItem(st, k, v)

SaveOnInput(st, k, v) == SetItem(st, k, v)

\* ------------------------------------------------------------ input event
Min(a, b) == IF a < b THEN a ELSE b

TimeCap == 2 * DebounceDelay

\* An input event on field f whose value already is val[f]: the validation,
\* autosave and debounce listeners of f run in the order they were registered.
\* An exception of one listener is reported to the window error handler (one
\* banner) and does not stop the others.  thenBlur: the caller blurs f after.
InputDispatched(f, val, cls0, via, thenBlur) ==
    LET pg     == page
        cls1   == ValidationListener(pg, cls0, wasValidated, val, f)
        cls2   == IF thenBlur
                  THEN ValidationListener(pg, cls1, wasValidated, val, f)
                  ELSE cls1
        saves  == f \in bound.inputs
        wrote  == saves /\ storeMode = "ok"
        failed == saves /\ storeMode # "ok"
        errs   == IF failed THEN 1 ELSE 0
        deb    == IF f \in bound.search
                  THEN Debounce(timers, searchTimeout, f)
                  ELSE [timers |-> timers, handles |-> searchTimeout]
    IN  /\ notifications + errs <= MaxNotes
        /\ Cardinality(PendingSearch(timers, f)) <= MaxPending
        /\ classes' = cls2
        /\ store' = IF wrote THEN SaveOnInput(store, KeyOf(pg, f), val[f]) ELSE store
        /\ timers' = deb.timers
        /\ searchTimeout' = deb.handles
        /\ notifications' = notifications + errs
        /\ lastWrite' = IF wrote THEN [lastWrite EXCEPT ![f] = <<val[f]>>]
                        ELSE lastWrite
        /\ keyWrite' = IF wrote THEN [keyWrite EXCEPT ![KeyOf(pg, f)] = <<val[f]>>]
                       ELSE keyWrite
        /\ writer' = IF wrote THEN [writer EXCEPT ![KeyOf(pg, f)] = f] ELSE writer
        /\ events' = IF IsSearch(pg, f)
                     THEN [events EXCEPT ![f] = Min(@ + 1, MaxBurst)] ELSE events
        /\ passes' = IF IsSearch(pg, f) THEN [passes EXCEPT ![f] = 0] ELSE passes
        /\ sinceInput' = IF IsSearch(pg, f)
                         THEN [sinceInput EXCEPT ![f] = 0] ELSE sinceInput
        /\ textAtEvent' = IF IsSearch(pg, f)
                          THEN [textAtEvent EXCEPT ![f] = val[f]] ELSE textAtEvent
        /\ clearHist' = IF ~IsSearch(pg, f) THEN clearHist
                        ELSE IF via = "clear" THEN [clearHist EXCEPT ![f] = "activated"]
                        ELSE IF clearHist[f] = "activated"
                             THEN [clearHist EXCEPT ![f] = "superseded"]
                        ELSE clearHist
        /\ last' = [op |-> "input", target |-> f,
                    info |-> [via |-> via, setFailed |-> failed, uncaught |-> errs]]

\* The user edits the focused field.
InputEvent ==
    \E f \in FieldIds(page), v \in page.texts :
        /\ focus = f
        /\ v # value[f]
        /\ value' = [value EXCEPT ![f] = v]
        /\ InputDispatched(f, value', classes, "user", FALSE)
        /\ UNCHANGED <<page, table, storeMode, wasValidated, focus, btn, display, shownFor, countEl,
                       clearBtn, bound>>

\* The user clicks into a field (f > 0) or on something else (f = 0).
FocusField ==
    \E f \in FieldIds(page) \cup {0} :
        /\ f # focus
        /\ classes' = MoveFocus(page, classes, wasValidated, value, focus, f)
        /\ focus' = f
        /\ last' = [op |-> "focus", target |-> f, info |-> [blurred |-> focus]]
        /\ UNCHANGED <<page, table, store, storeMode, value, wasValidated, btn, timers,
                       searchTimeout, display, shownFor, countEl, clearBtn, bound,
                       notifications, lastWrite, keyWrite, writer, events, passes, sinceInput,
                       textAtEvent, clearHist>>

\* ----------------------------------------------------------- submit event
\* form.querySelector(':invalid'): the first invalid field, 0 when there is none
FirstInvalid(pg, val, fm) ==
    LET bad == SelectSeq(InputsOf(pg, fm), LAMBDA f : ~FieldValid(pg, val, f))
    IN  IF bad = <<>> THEN 0 ELSE Head(bad)

\* The else branch of the validation listener: the button shows the loading
\* state and a fallback timer is to put back what the button shows now.
LoadingBtn == [loading |-> TRUE, disabled |-> TRUE, label |-> SavingLabel]

\* The label the fallback timer will put back: submitBtn.innerHTML, read at
\* the time of the submit event.
OriginalText(b) == b.label

\* "Clear auto-save on successful submit": the submit listener of an autosave form
ClearEverything(pg, st, fm) == EmptyStore

ClearOnSubmit(pg, st, fm) == RemoveAll(pg, st, InputsOf(pg, fm))

KeysOfForm(pg, fm) == {KeyOf(pg, f) : f \in Range(InputsOf(pg, fm))}

\* The autosave listener of form fm runs on a submit event when it was
\* registered, whether or not the validation listener before it called
\* preventDefault and stopPropagation: both are listeners of the form itself.
ClearListenerStopped(bnd, fm, valid) == fm \in bnd.forms /\ valid

ClearListenerRuns(bnd, fm, valid) == fm \in bnd.forms

\* A submit event on form fm (fired for invalid forms too: the forms are
\* novalidate, as the was-validated styling requires).  The validation
\* listener runs first, then the autosave listener of the same form, which
\* stopPropagation does not keep from running.
SubmitEvent ==
    \E fm \in FormIds(page) :
        LET valid   == FormValid(page, value, fm)
            target  == FirstInvalid(page, value, fm)
            hasBtn  == page.forms[fm].submitBtn
            clears  == ClearListenerRuns(bound, fm, valid)
            throws  == clears /\ storeMode = "unavailable" /\ InputsOf(page, fm) # <<>>
            errs    == IF throws THEN 1 ELSE 0
            removed == clears /\ ~throws
        IN  /\ notifications + errs <= MaxNotes
            /\ (valid /\ hasBtn) => Cardinality(PendingFallback(timers)) < MaxFallback
            /\ IF valid
               THEN /\ focus' = focus
                    /\ classes' = classes
                    /\ IF hasBtn
                       THEN /\ btn' = [btn EXCEPT ![fm] = LoadingBtn]
                            /\ timers' = Append(timers,
                                   Timer(FreshId(timers, {searchTimeout[g] :
                                                          g \in DOMAIN searchTimeout}),
                                         "fallback", fm, FallbackDelay,
                                         OriginalText(btn[fm])))
                       ELSE UNCHANGED <<btn, timers>>
               ELSE /\ focus' = IF target # 0 THEN target ELSE focus
                    /\ classes' = IF target # 0
                                  THEN MoveFocus(page, classes, wasValidated, value,
                                                 focus, target)
                                  ELSE classes
                    /\ UNCHANGED <<btn, timers>>
            /\ wasValidated' = [wasValidated EXCEPT ![fm] = TRUE]
            /\ store' = IF removed THEN ClearOnSubmit(page, store, fm) ELSE store
            /\ notifications' = notifications + errs
            /\ lastWrite' = [g \in FieldIds(page) |-> <<>>]
            /\ keyWrite' = [k \in Keys(page) |->
                              IF k \in KeysOfForm(page, fm) THEN <<>> ELSE keyWrite[k]]
            /\ writer' = [k \in Keys(page) |->
                            IF k \in DOMAIN store' THEN writer[k] ELSE 0]
            /\ last' = [op |-> "submit", target |-> fm,
                        info |-> [event |-> TRUE, blocked |-> ~valid,
                                  native |-> valid, uncaught |-> errs,
                                  cleared |-> DOMAIN store \ DOMAIN store']]
            /\ UNCHANGED <<page, table, storeMode, value, searchTimeout, display, shownFor, countEl,
                           clearBtn, bound, events, passes, sinceInput, textAtEvent, clearHist>>

\* ------------------------------------------------------ keyboard shortcuts
\* Ctrl/Cmd+Enter with the focus in a field of a form: form.submit(), which
\* submits without a submit event and without constraint validation.
KeyCtrlEnter ==
    /\ bound.keys
    /\ focus # 0
    /\ page.fields[focus].form # 0
    /\ LET fm == page.fields[focus].form IN
        /\ lastWrite' = [g \in FieldIds(page) |-> <<>>]
        /\ keyWrite' = [k \in Keys(page) |->
                          IF k \in KeysOfForm(page, fm) THEN <<>> ELSE keyWrite[k]]
        /\ last' = [op |-> "submit", target |-> fm,
                    info |-> [event |-> FALSE, blocked |-> FALSE,
                              native |-> TRUE, uncaught |-> 0, cleared |-> {}]]
    /\ UNCHANGED <<page, table, store, storeMode, value, dom, bound, notifications, writer,
                   events, passes, sinceInput, textAtEvent, clearHist>>

\* document.querySelector('input[type="search"], input[name="search"]')
FirstSearchInput(pg) ==
    IF SearchInputs(pg) = {} THEN 0
    ELSE CHOOSE f \in SearchInputs(pg) : \A g \in SearchInputs(pg) : f <= g

\* Ctrl/Cmd+K: focus the first search input of the page.
KeyCtrlK ==
    /\ bound.keys
    /\ FirstSearchInput(page) # 0
    /\ focus # FirstSearchInput(page)
    /\ classes' = MoveFocus(page, classes, wasValidated, value, focus,
                            FirstSearchInput(page))
    /\ focus' = FirstSearchInput(page)
    /\ last' = [op |-> "focus", target |-> FirstSearchInput(page),
                info |-> [blurred |-> focus]]
    /\ UNCHANGED <<page, table, store, storeMode, value, wasValidated, btn, timers,
                   searchTimeout, display, shownFor, countEl, clearBtn, bound, notifications,
                   lastWrite, keyWrite, writer, events, passes, sinceInput, textAtEvent, clearHist>>

\* Escape with the focus in a search input: empty it, dispatch a synthetic
\* input event, blur it.
KeyEscape ==
    /\ bound.keys
    /\ focus # 0
    /\ IsSearch(page, focus)
    /\ value' = [value EXCEPT ![focus] = <<>>]
    /\ InputDispatched(focus, value', classes, "escape", TRUE)
    /\ focus' = 0
    /\ UNCHANGED <<page, table, storeMode, wasValidated, btn, display, shownFor, countEl, clearBtn,
                   bound>>

\* ------------------------------------------------------------ clear control
\* clearBtn.remove(), the last statement of the click listener
KeepControl(cb, f) == cb

RemoveControl(cb, f) == [cb EXCEPT ![f] = FALSE]

\* A click on the clear control of search input f.  Whether the click moves
\* the focus to the button depends on the browser.
ClickClear ==
    \E f \in FieldIds(page), moves \in BOOLEAN :
        /\ clearBtn[f]
        /\ moves => focus # 0
        /\ value' = [value EXCEPT ![f] = <<>>]
        /\ InputDispatched(f, value',
                           IF moves
                           THEN MoveFocus(page, classes, wasValidated, value, focus, 0)
                           ELSE classes,
                           "clear", FALSE)
        /\ focus' = IF moves THEN 0 ELSE focus
        /\ clearBtn' = RemoveControl(clearBtn, f)
        /\ UNCHANGED <<page, table, storeMode, wasValidated, btn, display, shownFor, countEl, bound>>

\* ------------------------------------------------------------------- time
\* Time passes by d; no pending timer is passed over: a due timer fires first.
TimePasses(d) ==
    /\ timers # <<>>
    /\ \A i \in 1..Len(timers) : timers[i].remaining >= d
    /\ timers' = [i \in 1..Len(timers) |-> [timers[i] EXCEPT !.remaining = @ - d]]
    /\ sinceInput' = [f \in FieldIds(page) |->
                         IF events[f] > 0 THEN Min(sinceInput[f] + d, TimeCap)
                         ELSE sinceInput[f]]
    /\ UNCHANGED <<page, table, store, storeMode, value, classes, wasValidated, focus, btn,
                   searchTimeout, display, shownFor, countEl, clearBtn, bound, notifications,
                   last, lastWrite, keyWrite, writer, events, passes, textAtEvent, clearHist>>

\* The clock is watched in short steps while a debounce timer is pending and
\* in long steps otherwise.
Advance ==
    /\ \E i \in 1..Len(timers) : timers[i].kind = "search"
    /\ \E d \in ShortSteps : TimePasses(d)

AdvanceLong ==
    /\ \A i \in 1..Len(timers) : timers[i].kind # "search"
    /\ \E d \in LongSteps : TimePasses(d)

\* The timer that fires next: the oldest of the due ones, 0 when none is due.
DueTimer(tm) ==
    LET due == {i \in 1..Len(tm) : tm[i].remaining = 0}
    IN  IF due = {} THEN 0 ELSE CHOOSE i \in due : \A j \in due : i <= j

RemoveAt(tm, i) == SubSeq(tm, 1, i - 1) \o SubSeq(tm, i + 1, Len(tm))

\* ---------------------------------------------------------------- search
\* input.value.toLowerCase().trim()
SearchTermNoTrim(v) == ToLower(v)

SearchTerm(v) == Trim(ToLower(v))

\* !searchTerm || text.includes(searchTerm), text the element's lower-cased text
IsVisibleRawText(text, term) == term = <<>> \/ Includes(text, term)

IsVisible(text, term) == term = <<>> \/ Includes(ToLower(text), term)

\* updateSearchResultCount: create the status line if needed; show the counts
\* when the input holds more than white space, hide the line otherwise.
updateSearchResultCount(cnt, v, visible, total) ==
    IF Trim(v) # <<>>
    THEN [exists |-> TRUE, shown |-> TRUE, visible |-> visible, total |-> total]
    ELSE [cnt EXCEPT !.exists = TRUE, !.shown = FALSE]

\* performSearch(input): the new display of every element and the new status
\* line of the input.  threw: input.closest('.card, .container') was null.
performSearch(pg, val, disp, cnt, f) ==
    LET term == SearchTerm(val[f])
        c    == pg.fields[f].container
        els  == SearchableIn(pg, c)
        d2   == [e \in ElemIds(pg) |->
                   IF e \in els
                   THEN IF IsVisible(pg.elems[e].text, term) THEN "" ELSE "none"
                   ELSE disp[e]]
        vis  == Cardinality({e \in els : d2[e] # "none"})
    IN  IF c = 0 THEN [display |-> disp, countEl |-> cnt, threw |-> TRUE, ran |-> FALSE]
        ELSE IF els = {}
             THEN [display |-> disp, countEl |-> cnt, threw |-> FALSE, ran |-> FALSE]
        ELSE [display |-> d2,
              countEl |-> [cnt EXCEPT ![f] =
                              updateSearchResultCount(@, val[f], vis, Cardinality(els))],
              threw   |-> FALSE,
              ran     |-> TRUE]

\* A debounce timer fires: the filter pass of its input.
FireSearch ==
    /\ DueTimer(timers) # 0
    /\ timers[DueTimer(timers)].kind = "search"
    /\ LET t    == timers[DueTimer(timers)]
           f    == t.target
           r    == performSearch(page, value, display, countEl, f)
           errs == IF r.threw THEN 1 ELSE 0
       IN  /\ notifications + errs <= MaxNotes
           /\ timers' = RemoveAt(timers, DueTimer(timers))
           /\ display' = r.display
           /\ shownFor' = IF r.ran
                          THEN [shownFor EXCEPT ![page.fields[f].container] = f]
                          ELSE shownFor
           /\ countEl' = r.countEl
           /\ notifications' = notifications + errs
           /\ passes' = [passes EXCEPT ![f] = @ + 1]
           /\ events' = [events EXCEPT ![f] = 0]
           /\ last' = [op |-> "search", target |-> f,
                       info |-> [delay |-> sinceInput[f], burst |-> events[f],
                                 term |-> SearchTerm(value[f]), ran |-> r.ran,
                                 uncaught |-> errs]]
    /\ UNCHANGED <<page, table, store, storeMode, value, classes, wasValidated, focus, btn,
                   searchTimeout, clearBtn, bound, lastWrite, keyWrite, writer, sinceInput,
                   textAtEvent, clearHist>>

\* A fallback timer fires: the submit button leaves the loading state and
\* shows the label its submit event saw.
FireFallback ==
    /\ DueTimer(timers) # 0
    /\ timers[DueTimer(timers)].kind = "fallback"
    /\ LET t == timers[DueTimer(timers)] IN
        /\ timers' = RemoveAt(timers, DueTimer(timers))
        /\ btn' = [btn EXCEPT ![t.target] =
                      [loading |-> FALSE, disabled |-> FALSE, label |-> t.orig]]
        /\ last' = [op |-> "revert", target |-> t.target, info |-> 0]
    /\ UNCHANGED <<page, table, store, storeMode, value, classes, wasValidated, focus,
                   searchTimeout, display, shownFor, countEl, clearBtn, bound, notifications,
                   lastWrite, keyWrite, writer, events, passes, sinceInput, textAtEvent, clearHist>>

\* ------------------------------------------------------------ error banner
\* The banner the window error handler showed goes away: the user closes it
\* or its auto-dismiss timer fires (the delay of that timer is not modelled).
DismissNotification ==
    /\ notifications > 0
    /\ notifications' = notifications - 1
    /\ UNCHANGED <<page, table, store, storeMode, value, dom, bound, last, lastWrite, keyWrite, writer,
                   events, passes, sinceInput, textAtEvent, clearHist>>

\* ------------------------------------------------------------------ tables
\* sortTable and exportTableToCSV are utilities the page calls through
\* window.VehicleTracker.  The model's table has a tbody and two columns; a
\* row is the sequence of the texts of its cells.
Columns == {1, 2}

Cell(r, c) == r[c]

\* The rows of the model's tables.  The first column holds amounts, the second
\* free text: with a comma, with quote characters, with a line break inside.
TableRows ==
    {<< <<"1", "0">>,      <<"a", ",", "b">> >>,
     << <<"2">>,           <<"a">> >>,
     << <<"1">>,           <<"B">> >>,
     << <<"$", "2">>,      <<" ", "a">> >>,
     << <<>>,              <<"a", "\n", "b">> >>,
     << <<"1", ".", "5">>, <<"\"", "b", "\"">> >>,
     << <<"-", "1">>,      <<"A">> >>}

Tables == UNION {[1..n -> TableRows] : n \in 0..MaxRows}

Digits == <<"0", "1", "2", "3", "4", "5", "6", "7", "8", "9">>

IsDigit(c) == \E d \in 1..10 : Digits[d] = c

DigitValue(c) == (CHOOSE d \in 1..10 : Digits[d] = c) - 1

\* aVal.replace(/[^0-9.-]/g, '')
StripNonNumeric(s) == SelectSeq(s, LAMBDA c : IsDigit(c) \/ c = "." \/ c = "-")

RECURSIVE LeadingDigits(_)
LeadingDigits(s) ==
    IF s # <<>> /\ IsDigit(Head(s)) THEN <<Head(s)>> \o LeadingDigits(Tail(s)) ELSE <<>>

RECURSIVE DigitsValue(_)
DigitsValue(s) ==
    IF s = <<>> THEN 0
    ELSE 10 * DigitsValue(SubSeq(s, 1, Len(s) - 1)) + DigitValue(s[Len(s)])

RECURSIVE Pow10(_)
Pow10(n) == IF n = 0 THEN 1 ELSE 10 * Pow10(n - 1)

\* parseFloat of a text of digits, points and minus signs: the value of the
\* longest prefix that is a decimal literal, as num / 10^scale, and NaN when
\* no prefix is one.
parseFloat(s) ==
    LET neg  == s # <<>> /\ Head(s) = "-"
        r    == IF neg THEN Tail(s) ELSE s
        int  == LeadingDigits(r)
        rest == SubSeq(r, Len(int) + 1, Len(r))
        frac == IF rest # <<>> /\ Head(rest) = "."
                THEN LeadingDigits(Tail(rest))
                ELSE <<>>
        mag  == DigitsValue(int \o frac)
    IN  [nan   |-> int = <<>> /\ frac = <<>>,
         num   |-> IF neg THEN 0 - mag ELSE mag,
         scale |-> Len(frac)]

Sign(n) == IF n < 0 THEN 0 - 1 ELSE IF n > 0 THEN 1 ELSE 0

\* The comparator's a - b in numeric mode: NaN when a side is NaN, else the
\* sign of the difference.
NumericDifference(a, b) ==
    [nan  |-> a.nan \/ b.nan,
     sign |-> IF a.nan \/ b.nan THEN 0
              ELSE Sign(a.num * Pow10(b.scale) - b.num * Pow10(a.scale))]

\* The primary weight of a character in the collation of localeCompare: white
\* space, punctuation, the currency sign, digits, letters; a letter weighs the
\* same in upper and in lower case.
CollationOrder ==
    <<{"\n"}, {" "}, {"-"}, {","}, {"."}, {"\""}, {"$"},
      {"0"}, {"1"}, {"2"}, {"3"}, {"4"}, {"5"}, {"6"}, {"7"}, {"8"}, {"9"},
      {"a", "A"}, {"b", "B"}>>

PrimaryWeight(c) == CHOOSE i \in 1..Len(CollationOrder) : c \in CollationOrder[i]

\* The case of a character breaks ties: lower case first.
CaseWeight(c) == IF c \in {"A", "B"} THEN 1 ELSE 0

RECURSIVE LexSign(_, _)
LexSign(x, y) ==
    IF x = <<>> THEN (IF y = <<>> THEN 0 ELSE 0 - 1)
    ELSE IF y = <<>> THEN 1
    ELSE IF Head(x) # Head(y) THEN Sign(Head(x) - Head(y))
    ELSE LexSign(Tail(x), Tail(y))

\* String.prototype.localeCompare: the sign of the comparison
localeCompare(s, t) ==
    LET p == LexSign([i \in 1..Len(s) |-> PrimaryWeight(s[i])],
                     [i \in 1..Len(t) |-> PrimaryWeight(t[i])])
    IN  IF p # 0 THEN p
        ELSE LexSign([i \in 1..Len(s) |-> CaseWeight(s[i])],
                     [i \in 1..Len(t) |-> CaseWeight(t[i])])

\* The comparator of sortTable as Array.prototype.sort reads it: the sign of
\* what it returns, a NaN read as +0.
CompareRows(a, b, c, isNumeric) ==
    LET aVal == Trim(Cell(a, c))
        bVal == Trim(Cell(b, c))
    IN  IF isNumeric
        THEN LET v == NumericDifference(parseFloat(StripNonNumeric(aVal)),
                                        parseFloat(StripNonNumeric(bVal)))
             IN  IF v.nan THEN 0 ELSE v.sign
        ELSE localeCompare(aVal, bVal)

\* The comparator is a consistent one for these rows: it orders them as a
\* strict weak ordering does.
ConsistentComparator(rows, c, isNumeric) ==
    \A x, y, z \in Range(rows) :
        /\ CompareRows(x, x, c, isNumeric) = 0
        /\ CompareRows(x, y, c, isNumeric) = 0 - CompareRows(y, x, c, isNumeric)
        /\ (CompareRows(x, y, c, isNumeric) = 0 /\ CompareRows(y, z, c, isNumeric) = 0)
              => CompareRows(x, z, c, isNumeric) = 0
        /\ (CompareRows(x, y, c, isNumeric) < 0 /\ CompareRows(y, z, c, isNumeric) <= 0)
              => CompareRows(x, z, c, isNumeric) < 0
        /\ (CompareRows(x, y, c, isNumeric) <= 0 /\ CompareRows(y, z, c, isNumeric) < 0)
              => CompareRows(x, z, c, isNumeric) < 0

\* Insert row r into the sorted rows: behind every row that is not greater.
RECURSIVE InsertRow(_, _, _, _)
InsertRow(sorted, r, c, isNumeric) ==
    IF sorted = <<>> \/ CompareRows(sorted[Len(sorted)], r, c, isNumeric) <= 0
    THEN Append(sorted, r)
    ELSE Append(InsertRow(SubSeq(sorted, 1, Len(sorted) - 1), r, c, isNumeric),
                sorted[Len(sorted)])

RECURSIVE StableSort(_, _, _)
StableSort(rows, c, isNumeric) ==
    IF rows = <<>> THEN <<>>
    ELSE InsertRow(StableSort(SubSeq(rows, 1, Len(rows) - 1), c, isNumeric),
                   rows[Len(rows)], c, isNumeric)

Reorderings(rows) == {[i \in 1..Len(rows) |-> rows[p[i]]] : p \in Permutations(1..Len(rows))}

\* rows.sort(comparator): the stable sort for a consistent comparator; for an
\* inconsistent one the order is left to the engine.
SortOutcomes(rows, c, isNumeric) ==
    IF ConsistentComparator(rows, c, isNumeric)
    THEN {StableSort(rows, c, isNumeric)}
    ELSE Reorderings(rows)

\* sortTable(table, columnIndex, isNumeric): the rows are appended to the body
\* in the order rows.sort left them in.
SortTable ==
    \E c \in Columns, isNumeric \in BOOLEAN :
        \E sorted \in SortOutcomes(table, c, isNumeric) :
            /\ table' = sorted
            /\ last' = [op |-> "sort", target |-> c,
                        info |-> [numeric |-> isNumeric, before |-> table]]
            /\ UNCHANGED <<page, store, storeMode, value, dom, bound, notifications,
                           lastWrite, keyWrite, writer, events, passes, sinceInput, textAtEvent, clearHist>>

\* text.replace(/"/g, '""')
RECURSIVE DoubleQuotes(_)
DoubleQuotes(s) ==
    IF s = <<>> THEN <<>>
    ELSE (IF Head(s) = "\"" THEN <<"\"", "\"">> ELSE <<Head(s)>>) \o DoubleQuotes(Tail(s))

\* The text exportTableToCSV writes for one cell.
CsvCell(text) ==
    LET t == Trim(text)
    IN  IF Includes(t, <<",">>) \/ Includes(t, <<"\"">>)
        THEN <<"\"">> \o DoubleQuotes(t) \o <<"\"">>
        ELSE t

\* Array.prototype.join
RECURSIVE Join(_, _)
Join(parts, sep) ==
    IF parts = <<>> THEN <<>>
    ELSE IF Len(parts) = 1 THEN parts[1]
    ELSE parts[1] \o <<sep>> \o Join(Tail(parts), sep)

CsvRow(r) == Join([j \in 1..Len(r) |-> CsvCell(r[j])], ",")

\* csvContent of exportTableToCSV
CsvContent(rows) == Join([i \in 1..Len(rows) |-> CsvRow(rows[i])], "\n")

\* exportTableToCSV(tableId): the text handed to the download.
ExportTable ==
    /\ last' = [op |-> "export", target |-> 0, info |-> [text |-> CsvContent(table)]]
    /\ UNCHANGED <<page, table, store, storeMode, value, dom, bound, notifications,
                   lastWrite, keyWrite, writer, events, passes, sinceInput, textAtEvent, clearHist>>

\* ----------------------------------------------------------- specification
Pages ==
    {PageCollide, PageOwners, PageUnnamed, PageSearch, PageSearchForm, PageTwoSearch,
     PageBare, PageSubmit}

Init == InitOn(Pages) /\ table = <<>>

Next ==
    \/ LoadPage
    \/ FocusField
    \/ InputEvent
    \/ SubmitEvent
    \/ KeyCtrlEnter
    \/ KeyCtrlK
    \/ KeyEscape
    \/ ClickClear
    \/ Advance
    \/ AdvanceLong
    \/ FireSearch
    \/ FireFallback
    \/ DismissNotification

Spec == Init /\ [][Next]_vars

\* A page that holds a table and nothing the script initializes; the page's
\* own code sorts and exports the table.
PageTable ==
    [forms |-> <<>>, fields |-> <<>>, elems |-> <<>>, texts |-> {}, rendered |-> {}]

InitTable == InitOn({PageTable}) /\ table \in Tables

NextTable ==
    \/ SortTable
    \/ ExportTable

SpecTable == InitTable /\ [][NextTable]_vars

\* ------------------------------------------------------------------ claims
\* Field f is an input of a form[data-autosave].
InAutosaveForm(pg, f) == pg.fields[f].form # 0 /\ pg.forms[pg.fields[f].form].autosave

Named(pg, f) == pg.fields[f].name # ""

JustLoaded == last.op = "load"

\* C1 as stated: right after a reload, every named field of an autosave form
\* that the server rendered empty holds the text its own last input event
\* stored, whatever input events other fields had since, as long as no form
\* was submitted.  (Stated for reloads at which the store can be read.)
C1_RoundTripAnyEvents ==
    (JustLoaded /\ storeMode # "unavailable") =>
        \A f \in FieldIds(page) :
            (/\ InAutosaveForm(page, f)
             /\ Named(page, f)
             /\ lastWrite[f] # <<>>
             /\ last.info.srv[f] = <<>>) => value[f] = lastWrite[f][1]

\* C1 amended: right after a reload at which the store can be read, every
\* named field of an autosave form that the server rendered empty holds the
\* text that the last input event on a field of its name stored, as long as no
\* form with a field of that name was submitted since.
C1_RoundTripPerKey ==
    (JustLoaded /\ storeMode # "unavailable") =>
        \A f \in FieldIds(page) :
            (/\ InAutosaveForm(page, f)
             /\ Named(page, f)
             /\ keyWrite[KeyOf(page, f)] # <<>>
             /\ last.info.srv[f] = <<>>) => value[f] = keyWrite[KeyOf(page, f)][1]

\* A reload restored a non-empty text that the field itself had stored.
C1_Witness ==
    /\ JustLoaded
    /\ storeMode # "unavailable"
    /\ \E f \in FieldIds(page) :
        /\ InAutosaveForm(page, f)
        /\ Named(page, f)
        /\ last.info.srv[f] = <<>>
        /\ lastWrite[f] # <<>>
        /\ lastWrite[f] = keyWrite[KeyOf(page, f)]
        /\ lastWrite[f][1] # <<>>
        /\ value[f] = lastWrite[f][1]

\* C11: right after a reload at which the store can be read, when an input
\* event on a named field a of one autosave form stored v last under its key
\* and the server rendered a and a field b of the same name in another
\* autosave form empty, both a and b hold v.
C11_KeyCollision ==
    (JustLoaded /\ storeMode # "unavailable") =>
        \A a, b \in FieldIds(page) :
            (/\ InAutosaveForm(page, a) /\ InAutosaveForm(page, b)
             /\ page.fields[a].form # page.fields[b].form
             /\ Named(page, a)
             /\ page.fields[a].name = page.fields[b].name
             /\ lastWrite[a] # <<>>
             /\ lastWrite[a] = keyWrite[Key(page.fields[a].name)]
             /\ last.info.srv[a] = <<>>
             /\ last.info.srv[b] = <<>>) =>
                /\ value[a] = lastWrite[a][1]
                /\ value[b] = lastWrite[a][1]

\* A reload put the text "Ab", typed into the email field of the first form,
\* into the email fields of both forms.
C11_Witness ==
    /\ JustLoaded
    /\ page = PageCollide
    /\ lastWrite[1] = <<<<"A", "b">>>>
    /\ lastWrite[2] = <<>>
    /\ last.info.srv[1] = <<>>
    /\ last.info.srv[2] = <<>>
    /\ value[1] = <<"A", "b">>
    /\ value[2] = <<"A", "b">>

\* C2: right after a load, every field of an autosave form that the server
\* rendered non-empty still holds the rendered value, whatever the store holds.
C2_RestoreNeverOverwrites ==
    JustLoaded =>
        \A f \in FieldIds(page) :
            (InAutosaveForm(page, f) /\ last.info.srv[f] # <<>>) =>
                value[f] = last.info.srv[f]

\* A load kept a rendered value although the store held another text.
C2_Witness ==
    /\ JustLoaded
    /\ \E f \in FieldIds(page) :
        /\ f \in bound.inputs
        /\ last.info.srv[f] # <<>>
        /\ KeyOf(page, f) \in DOMAIN store
        /\ store[KeyOf(page, f)] # <<>>
        /\ store[KeyOf(page, f)] # last.info.srv[f]
        /\ value[f] = last.info.srv[f]

\* C3 as stated: right after an autosave form was submitted, by a submit event
\* or by the Ctrl/Cmd+Enter shortcut, the store holds no entry under the key
\* of any of its fields.  (Stated for a working store.)
C3_SubmitClearsStore ==
    (/\ last.op = "submit"
     /\ page.forms[last.target].autosave
     /\ storeMode = "ok") =>
        \A f \in Range(InputsOf(page, last.target)) : KeyOf(page, f) \notin DOMAIN store

\* C7 as stated: when setItem fails during an input event the user caused on
\* an autosave field, no error leaves the listener, so the window error
\* handler shows no banner.
C7_WriteFailureSwallowed ==
    (last.op = "input" /\ last.info.via = "user" /\ last.info.setFailed) =>
        last.info.uncaught = 0

\* C8 as stated: nothing is stored on behalf of a field without a name, and a
\* load leaves its value as rendered.
C8_UnnamedUntracked ==
    \A f \in FieldIds(page) :
        (InAutosaveForm(page, f) /\ ~Named(page, f)) =>
            /\ KeyOf(page, f) \notin DOMAIN store
            /\ JustLoaded => value[f] = last.info.srv[f]

\* C10: right after an input event on a named field of an autosave form, with
\* the store working, the entry under the field's key is the field's value
\* (the empty text included); and a load leaves a field as rendered when the
\* entry under its key is the empty text.
C10_PersistOnChange ==
    /\ (/\ last.op = "input"
        /\ storeMode = "ok"
        /\ InAutosaveForm(page, last.target)
        /\ Named(page, last.target)) =>
            /\ KeyOf(page, last.target) \in DOMAIN store
            /\ store[KeyOf(page, last.target)] = value[last.target]
    /\ (JustLoaded /\ storeMode = "ok") =>
           \A f \in FieldIds(page) :
               (/\ InAutosaveForm(page, f)
                /\ Named(page, f)
                /\ KeyOf(page, f) \in DOMAIN store
                /\ store[KeyOf(page, f)] = <<>>) => value[f] = last.info.srv[f]

\* An input event stored the empty text over an earlier entry.
C10_Witness ==
    /\ last.op = "input"
    /\ storeMode = "ok"
    /\ InAutosaveForm(page, last.target)
    /\ Named(page, last.target)
    /\ value[last.target] = <<>>
    /\ store[KeyOf(page, last.target)] = <<>>

\* The normalized term of a search input: its text trimmed and lower-cased.
Normalized(v) == Trim(ToLower(v))

\* t occurs in s at some offset.
Contains(s, t) ==
    \E i \in 0..(Len(s) - Len(t)) : SubSeq(s, i + 1, i + Len(t)) = t

\* The debounce property of search input f: at most one pass per input event;
\* after an input event a pass is pending that is due exactly DebounceDelay
\* after the event; and a pass runs exactly DebounceDelay after the last of
\* the events since the pass before it, with the text of that last event.
DebouncedOnce(f) ==
    /\ passes[f] <= 1
    /\ events[f] > 0 =>
          /\ Cardinality(PendingSearch(timers, f)) = 1
          /\ \A i \in PendingSearch(timers, f) :
                timers[i].remaining = DebounceDelay - sinceInput[f]
    /\ (last.op = "search" /\ last.target = f) =>
          /\ last.info.burst >= 1
          /\ last.info.delay = DebounceDelay
          /\ last.info.term = Normalized(textAtEvent[f])

\* C4 as stated: for every search input, the input events of a burst produce
\* exactly one call of performSearch, DebounceDelay after the last of them,
\* with the text of the last of them.
C4_DebounceOnePass == \A f \in SearchInputs(page) : DebouncedOnce(f)

\* The same for the search inputs whose listener initializeSearch registered.
C4_DebounceWhenRegistered == \A f \in bound.search : DebouncedOnce(f)

\* C5: every search input has at most one pending debounce timer.
C5_SingleSlotTimer ==
    \A f \in FieldIds(page) : Cardinality(PendingSearch(timers, f)) <= 1

\* An Escape keystroke rescheduled the pass that an earlier event had pending.
C5_Witness ==
    /\ last.op = "input"
    /\ last.info.via = "escape"
    /\ events[last.target] >= 2
    /\ Cardinality(PendingSearch(timers, last.target)) = 1

\* C6: right after a filter pass over a container with searchable elements,
\* an element is visible exactly if the normalized term is empty or occurs in
\* its lower-cased text; the status line is hidden for the empty term and
\* otherwise shows the number of visible elements and the number of elements.
C6_FilterCorrect ==
    (last.op = "search" /\ last.info.ran) =>
        LET f   == last.target
            t   == Normalized(value[f])
            els == SearchableIn(page, page.fields[f].container)
        IN  /\ \A e \in els :
                  /\ display[e] \in {"", "none"}
                  /\ display[e] = "" <=>
                        (t = <<>> \/ Contains(ToLower(page.elems[e].text), t))
            /\ countEl[f].exists
            /\ t = <<>> => ~countEl[f].shown
            /\ t # <<>> =>
                  /\ countEl[f].shown
                  /\ countEl[f].visible = Cardinality({e \in els : display[e] = ""})
                  /\ countEl[f].total = Cardinality(els)

\* A pass for the text " B" showed two of three elements.
C6_Witness ==
    /\ last.op = "search"
    /\ last.info.ran
    /\ value[last.target] = <<" ", "B">>
    /\ countEl[last.target] =
           [exists |-> TRUE, shown |-> TRUE, visible |-> 2, total |-> 3]
    /\ \E e \in ElemIds(page) : display[e] = "none"

\* C9 as stated: once no fallback timer is pending, the submit button of a
\* form is enabled, out of the loading state and shows its first label.
C9_FallbackRevert ==
    \A fm \in FormIds(page) :
        (page.forms[fm].submitBtn /\ PendingFallback(timers) = {}) => btn[fm] = IdleBtn

\* The number a cell shows in numeric mode, NaN when it shows none.
NumberOf(r, c) == parseFloat(StripNonNumeric(Trim(Cell(r, c))))

\* Row x does not come after row y in the order of column c.
NotAfter(x, y, c, isNumeric) ==
    IF isNumeric
    THEN (NumberOf(x, c).nan \/ NumberOf(y, c).nan)
         \/ NumericDifference(NumberOf(x, c), NumberOf(y, c)).sign <= 0
    ELSE localeCompare(Trim(Cell(x, c)), Trim(Cell(y, c))) <= 0

\* Rows x and y have the same key in column c.
SameKey(x, y, c, isNumeric) ==
    IF isNumeric
    THEN NumberOf(x, c).nan = NumberOf(y, c).nan
         /\ NumericDifference(NumberOf(x, c), NumberOf(y, c)).sign = 0
    ELSE Trim(Cell(x, c)) = Trim(Cell(y, c))

\* after holds the rows of before, in ascending order of column c, the rows of
\* one key in the order they had in before.
SortedStable(before, after, c, isNumeric) ==
    /\ after \in Reorderings(before)
    /\ \A i, j \in 1..Len(after) :
          i < j => NotAfter(after[i], after[j], c, isNumeric)
    /\ \A r \in Range(before) :
          SelectSeq(after, LAMBDA x : SameKey(x, r, c, isNumeric))
              = SelectSeq(before, LAMBDA x : SameKey(x, r, c, isNumeric))

\* C12 as stated: right after sortTable(table, c, isNumeric) the body holds
\* the rows it held before, in ascending order of column c (by number when
\* isNumeric, by text otherwise), rows of equal key in their earlier order.
C12_SortAscendingStable ==
    last.op = "sort" =>
        SortedStable(last.info.before, table, last.target, last.info.numeric)

\* The same for the calls in which every cell of the column shows a number
\* when the mode is numeric.
C12_SortWhenNumbers ==
    (/\ last.op = "sort"
     /\ last.info.numeric =>
            \A r \in Range(last.info.before) : ~NumberOf(r, last.target).nan) =>
        SortedStable(last.info.before, table, last.target, last.info.numeric)

\* The cells 10, 2, 1 came out as 1, 2, 10 in numeric mode.
C12_NumericExample ==
    /\ last.op = "sort"
    /\ last.info.numeric
    /\ last.target = 1
    /\ [i \in 1..Len(last.info.before) |-> Cell(last.info.before[i], 1)]
           = << <<"1", "0">>, <<"2">>, <<"1">> >>
    /\ [i \in 1..Len(table) |-> Cell(table[i], 1)]
           = << <<"1">>, <<"2">>, <<"1", "0">> >>

\* The cells 10, 2, 1 came out as 1, 10, 2 in text mode.
C12_TextExample ==
    /\ last.op = "sort"
    /\ ~last.info.numeric
    /\ last.target = 1
    /\ [i \in 1..Len(last.info.before) |-> Cell(last.info.before[i], 1)]
           = << <<"1", "0">>, <<"2">>, <<"1">> >>
    /\ [i \in 1..Len(table) |-> Cell(table[i], 1)]
           = << <<"1">>, <<"1", "0">>, <<"2">> >>

\* A standard CSV reader (RFC 4180): records end at line breaks and fields at
\* commas, unless inside a field that opens with a quote character; inside
\* such a field two quote characters stand for one.  mode: "start" at the
\* start of a field, "plain" in an unquoted field, "quoted" in a quoted field,
\* "quote" after a quote character read inside a quoted field.
RECURSIVE ReadCsv(_, _, _, _, _)
ReadCsv(text, rows, row, cell, mode) ==
    IF text = <<>>
    THEN IF mode = "start" /\ row = <<>> THEN rows ELSE Append(rows, Append(row, cell))
    ELSE LET ch   == Head(text)
             rest == Tail(text)
         IN  IF mode = "quoted"
             THEN IF ch = "\""
                  THEN ReadCsv(rest, rows, row, cell, "quote")
                  ELSE ReadCsv(rest, rows, row, Append(cell, ch), "quoted")
             ELSE IF ch = "\"" /\ mode = "quote"
                  THEN ReadCsv(rest, rows, row, Append(cell, ch), "quoted")
             ELSE IF ch = "\"" /\ mode = "start"
                  THEN ReadCsv(rest, rows, row, cell, "quoted")
             ELSE IF ch = ","
                  THEN ReadCsv(rest, rows, Append(row, cell), <<>>, "start")
             ELSE IF ch = "\n"
                  THEN ReadCsv(rest, Append(rows, Append(row, cell)), <<>>, <<>>, "start")
             ELSE ReadCsv(rest, rows, row, Append(cell, ch), "plain")

ParseCsv(text) == ReadCsv(text, <<>>, <<>>, <<>>, "start")

\* The rows of the table with every cell text trimmed.
TrimmedCells(rows) ==
    [i \in 1..Len(rows) |-> [j \in 1..Len(rows[i]) |-> Trim(rows[i][j])]]

\* The text is what a CSV writer that quotes cells with a comma or a quote
\* character puts out for the rows, and a reader gets the rows back from it.
CsvRoundTrip(rows, text) ==
    /\ \A i \in 1..Len(rows) : \A j \in 1..Len(rows[i]) :
          LET t == Trim(rows[i][j])
          IN  (\E k \in 1..Len(t) : t[k] \in {",", "\""}) =>
                  Contains(text, <<"\"">> \o DoubleQuotes(t) \o <<"\"">>)
    /\ ParseCsv(text) = TrimmedCells(rows)

\* C13 as stated: the text exportTableToCSV builds for a table quotes every
\* cell with a comma or a quote character, doubling the quote characters, and
\* a standard CSV reader reads the rows and trimmed cell texts back from it.
C13_CsvRoundTrip ==
    last.op = "export" => CsvRoundTrip(table, last.info.text)

\* The same for the tables without a line break inside a cell.
C13_RoundTripOneLineCells ==
    (/\ last.op = "export"
     /\ \A i \in 1..Len(table) : \A j \in 1..Len(table[i]) :
            "\n" \notin Range(Trim(table[i][j]))) =>
        CsvRoundTrip(table, last.info.text)

\* The event handled by the step is a submit event of form fm.
SubmitEventOf(fm) == last'.op = "submit" /\ last'.info.event /\ last'.target = fm

\* C14 as stated: a step that removes an entry from the store is a submit
\* event of the form of the field that stored it; and no input or submit
\* event of another form changes or removes it.
C14_OnlyOwnerFormRemoves ==
    [][\A k \in DOMAIN store :
          LET owner == page.fields[writer[k]].form
          IN  /\ k \notin DOMAIN store' => SubmitEventOf(owner)
              /\ (k \notin DOMAIN store' \/ store'[k] # store[k]) =>
                    ~(last'.op = "input" /\ page.fields[last'.target].form # owner)]_vars

\* C14 amended: a step that removes an entry from the store is a submit event
\* of a form that holds a field of the entry's key, and a step that changes it
\* is an input event on a field of that key.
C14_OnlyFormsOfKeyRemove ==
    [][\A k \in DOMAIN store :
          /\ k \notin DOMAIN store' =>
                \E fm \in FormIds(page) : SubmitEventOf(fm) /\ k \in KeysOfForm(page, fm)
          /\ (k \in DOMAIN store' /\ store'[k] # store[k]) =>
                (last'.op = "input" /\ KeyOf(page, last'.target) = k)]_vars

\* A submit event removed the entry of its form and left the entry a field of
\* another form had stored.
C14_Witness ==
    /\ last.op = "submit"
    /\ last.info.cleared # {}
    /\ \E k \in DOMAIN store :
          /\ writer[k] # 0
          /\ page.fields[writer[k]].form # last.target
          /\ store[k] # <<>>

ShownForTerm(f, e) ==
    display[e] # "none" <=>
        (Normalized(value[f]) = <<>>
            \/ Contains(ToLower(page.elems[e].text), Normalized(value[f])))

\* C16 as stated: whenever a search input has no pending debounce timer, every
\* searchable element of its container is visible exactly if the input's
\* normalized text is empty or occurs in the element's lower-cased text.
C16_VisibilityFollowsTerm ==
    \A f \in SearchInputs(page) :
        PendingSearch(timers, f) = {} =>
            \A e \in SearchableIn(page, page.fields[f].container) : ShownForTerm(f, e)

\* C16 amended: the same for the search inputs whose own filter pass was the
\* last to run over their container since the page was loaded; and as long as
\* no pass ran over a container, every element of it is displayed as rendered.
C16_VisibilityFollowsLastPass ==
    /\ \A f \in SearchInputs(page) :
          (/\ PendingSearch(timers, f) = {}
           /\ page.fields[f].container \in Containers(page)
           /\ shownFor[page.fields[f].container] = f) =>
              \A e \in SearchableIn(page, page.fields[f].container) : ShownForTerm(f, e)
    /\ \A c \in Containers(page) :
          shownFor[c] = 0 => \A e \in SearchableIn(page, c) : display[e] = ""

\* On the page with two search inputs the pass of one hid an element while
\* the other input, whose pass ran before, holds another text.
C16_Witness ==
    \E f, g \in SearchInputs(page) :
        /\ f # g
        /\ page.fields[f].container = page.fields[g].container
        /\ shownFor[page.fields[f].container] = f
        /\ PendingSearch(timers, f) = {}
        /\ PendingSearch(timers, g) = {}
        /\ passes[g] = 1
        /\ Normalized(value[f]) # <<>>
        /\ Normalized(value[g]) # Normalized(value[f])
        /\ \E e \in SearchableIn(page, page.fields[f].container) : display[e] = "none"

\* C17: a clear control exists only for a search input that was non-empty at
\* initialization and whose control was not activated since; activating it
\* empties the input, removes the control and leaves one filter pass pending
\* that is due a quiet period after the activation; and the pass that follows
\* an activation without a further input event leaves every searchable
\* element of the container visible and the status line hidden.
C17_ClearOneShot ==
    /\ \A f \in FieldIds(page) :
          clearBtn[f] => (IsSearch(page, f) /\ clearHist[f] = "filled")
    /\ (last.op = "input" /\ last.info.via = "clear") =>
          /\ value[last.target] = <<>>
          /\ ~clearBtn[last.target]
          /\ clearHist[last.target] = "activated"
    /\ \A f \in SearchInputs(page) :
          (clearHist[f] = "activated" /\ events[f] > 0) =>
              /\ Cardinality(PendingSearch(timers, f)) = 1
              /\ \A i \in PendingSearch(timers, f) :
                    timers[i].remaining = DebounceDelay - sinceInput[f]
    /\ (last.op = "search" /\ clearHist[last.target] = "activated") =>
          /\ last.info.delay = DebounceDelay
          /\ \A e \in SearchableIn(page, page.fields[last.target].container) :
                display[e] = ""
          /\ ~countEl[last.target].shown

\* The pass that followed the activation of a clear control showed an element
\* again that was hidden, and hid the status line that was shown.
C17_Witness ==
    /\ last.op = "search"
    /\ last.info.ran
    /\ clearHist[last.target] = "activated"
    /\ ~clearBtn[last.target]
    /\ value[last.target] = <<>>
    /\ countEl[last.target].exists
    /\ ~countEl[last.target].shown
    /\ countEl[last.target].visible < countEl[last.target].total
    /\ \A e \in SearchableIn(page, page.fields[last.target].container) : display[e] = ""

\* C18 as stated: right after a submission of a form that fails constraint
\* validation was started, by a submit event or by the Ctrl/Cmd+Enter
\* shortcut, the form is not natively submitted and carries was-validated.
C18_NoSubmitWhileInvalid ==
    (last.op = "submit" /\ ~FormValid(page, value, last.target)) =>
        /\ ~last.info.native
        /\ wasValidated[last.target]

\* The same for the submissions started by a submit event.
C18_SubmitEventBlocksInvalid ==
    (last.op = "submit" /\ last.info.event /\ ~FormValid(page, value, last.target)) =>
        /\ ~last.info.native
        /\ wasValidated[last.target]

\* C19 as stated: right after a load during which the store refused every
\* access, every search input has its debounce listener, the keyboard
\* shortcuts are registered and no error banner is shown.
C19_ReadFailureContained ==
    (JustLoaded /\ storeMode = "unavailable") =>
        /\ bound.search = SearchInputs(page)
        /\ bound.keys
        /\ last.info.uncaught = 0
        /\ notifications = 0

\* The marker that shows the current validity of field f.
MarkerOf(f) == IF FieldValid(page, value, f) THEN {"is-valid"} ELSE {"is-invalid"}

\* Field f belongs to a form that carries was-validated.
InValidatedForm(f) == page.fields[f].form # 0 /\ wasValidated[page.fields[f].form]

\* C20: no field carries both markers; a field that carries one belongs to a
\* form marked as validated; and right after an input event on a field of a
\* validated form, and right after such a field lost the focus, the field
\* carries the marker of its current validity.
C20_FieldStyling ==
    /\ \A f \in FieldIds(page) :
          /\ classes[f] # {"is-valid", "is-invalid"}
          /\ classes[f] # {} => InValidatedForm(f)
    /\ (last.op = "input" /\ InValidatedForm(last.target)) =>
          classes[last.target] = MarkerOf(last.target)
    /\ (last.op = "focus" /\ last.info.blurred # 0 /\ InValidatedForm(last.info.blurred)) =>
          classes[last.info.blurred] = MarkerOf(last.info.blurred)

\* An input event emptied a required field of a validated form: it carries
\* the invalid marker alone, while another field carries the valid one.
C20_Witness ==
    /\ last.op = "input"
    /\ InValidatedForm(last.target)
    /\ page.fields[last.target].required
    /\ value[last.target] = <<>>
    /\ classes[last.target] = {"is-invalid"}
    /\ \E g \in FieldIds(page) : g # last.target /\ classes[g] = {"is-valid"}

====
